---- MODULE Spec2Model ----
(***************************************************************************)
(* Model of the CV matcher backend (app/main.py and app/services).         *)
(*                                                                         *)
(* Python strings are modelled as sequences of one-character strings, so   *)
(* that strip, startswith, slicing, substring tests and the regular        *)
(* expression substitutions are computed character by character.           *)
(***************************************************************************)
EXTENDS Integers, Sequences, FiniteSets, TLC

VARIABLES
    pc,               \* position of the /analyze handler
    cv_file,          \* the request's uploaded file (its filename), or none
    linkedin_url,     \* the request's linkedin_url form field, or none
    sources_text,     \* analyze_cv: the list of labelled source texts
    http_response,    \* what the handler answered
    effects,          \* side effects of the request so far, in order
    model_id,         \* CVAnalyzer.model_id, the last-successful hint
    model_candidates, \* CVAnalyzer.model_candidates
    calls,            \* completion calls issued by _call_github_models
    cascade,          \* how _call_github_models ended
    fetched,          \* how LinkedInFetcher.fetch_profile_text ended
    text_in,          \* FileProcessor._clean_text: the text given
    cleaned,          \* ... its result
    recleaned,        \* ... the result of cleaning the result
    items,            \* LinkedInFetcher._dedupe_preserve_order: the list given
    deduped,          \* ... its result
    response_text,    \* CVAnalyzer._parse_analysis_response: the reply given
    parsed,           \* ... its outcome
    loop,             \* the request whose coroutine holds the event loop
    rpc,              \* concurrent requests: the position of each
    rcalls,           \* ... the completion calls each has issued
    rresult,          \* ... how _call_github_models ended for each
    hint_seen         \* ... model_id as each found it entering the cascade

requestVars == << cv_file, linkedin_url, sources_text, http_response,
                  effects, fetched >>
analyzerVars == << model_id, model_candidates, calls, cascade >>
cleanVars == << text_in, cleaned, recleaned >>
dedupeVars == << items, deduped >>
parseVars == << response_text, parsed >>
serverVars == << loop, rpc, rcalls, rresult, hint_seen >>

vars == << pc, requestVars, analyzerVars, cleanVars, dedupeVars, parseVars,
           serverVars >>

-----------------------------------------------------------------------------
(* Bounds of the model.                                                    *)

\* longest text given to FileProcessor._clean_text
MaxLen == 5

\* longest fragment list given to LinkedInFetcher._dedupe_preserve_order
MaxItems == 3

-----------------------------------------------------------------------------
(* Python str primitives on sequences of characters.                       *)

\* str.isspace() / the regular expression class \s
IsSpace(c) == c \in {" ", "\n", "\t", "\r"}

\* the regular expression class \w on the characters the model uses
IsWord(c) ==
    c \in {"a", "b", "c", "d", "e", "f", "g", "h", "i", "j", "k", "l", "m",
           "n", "o", "p", "q", "r", "s", "t", "u", "v", "w", "x", "y", "z",
           "A", "B", "C", "D", "E", "F", "G", "H", "I", "J", "K", "L", "M",
           "N", "O", "P", "Q", "R", "S", "T", "U", "V", "W", "X", "Y", "Z",
           "0", "1", "2", "3", "4", "5", "6", "7", "8", "9", "_"}

\* s[n:]
Drop(s, n) == IF n >= Len(s) THEN << >> ELSE SubSeq(s, n + 1, Len(s))

\* s[:n] for n >= 0
Take(s, n) == IF n >= Len(s) THEN s ELSE SubSeq(s, 1, n)

RECURSIVE LStrip(_)
LStrip(s) ==
    IF s # << >> /\ IsSpace(Head(s)) THEN LStrip(Tail(s)) ELSE s

RECURSIVE RStrip(_)
RStrip(s) ==
    IF s # << >> /\ IsSpace(s[Len(s)]) THEN RStrip(Take(s, Len(s) - 1)) ELSE s

\* str.strip()
Strip(s) == RStrip(LStrip(s))

\* str.startswith(p)
StartsWith(s, p) == Len(s) >= Len(p) /\ Take(s, Len(p)) = p

\* str.endswith(p)
EndsWith(s, p) == Len(s) >= Len(p) /\ Drop(s, Len(s) - Len(p)) = p

\* sub in s
Contains(s, sub) ==
    \E i \in 0..(Len(s) - Len(sub)) : SubSeq(s, i + 1, i + Len(sub)) = sub

\* all sequences over S of length at most n
SeqsUpTo(S, n) == UNION { [1..k -> S] : k \in 0..n }

-----------------------------------------------------------------------------
(* FileProcessor._clean_text                                               *)

IsNewline(c) == c = "\n"

\* re.sub(r'\n+', '\n', text): every maximal run of newlines becomes one
RECURSIVE CollapseNewlines(_)
CollapseNewlines(s) ==
    IF s = << >> THEN << >>
    ELSE IF IsNewline(Head(s)) /\ Len(s) >= 2 /\ IsNewline(s[2])
         THEN CollapseNewlines(Tail(s))
         ELSE << Head(s) >> \o CollapseNewlines(Tail(s))

\* re.sub(r'\s+', ' ', text): every maximal run of whitespace becomes one
\* space
RECURSIVE CollapseWhitespace(_)
CollapseWhitespace(s) ==
    IF s = << >> THEN << >>
    ELSE IF IsSpace(Head(s))
         THEN IF Len(s) >= 2 /\ IsSpace(s[2])
              THEN CollapseWhitespace(Tail(s))
              ELSE << " " >> \o CollapseWhitespace(Tail(s))
         ELSE << Head(s) >> \o CollapseWhitespace(Tail(s))

\* the character class [\w\s\-.,;:()\[\]/@#%&+] that the cleaning keeps
Whitelisted(c) ==
    \/ IsWord(c)
    \/ IsSpace(c)
    \/ c \in {"-", ".", ",", ";", ":", "(", ")", "[", "]", "/", "@", "#",
              "%", "&", "+"}

\* re.sub(r'[^\w\s\-.,;:()\[\]/@#%&+]', '', text)
RemoveSpecial(text) == SelectSeq(text, Whitelisted)

CleanText(text) ==
    IF text = << >> THEN << >>
    ELSE Strip(RemoveSpecial(CollapseWhitespace(CollapseNewlines(text))))

\* the characters the texts given to _clean_text are drawn from: a word
\* character, a space, a newline, a kept punctuation mark and a character
\* outside the whitelist
CleanAlphabet == {"a", " ", "\n", "-", "$"}

CleanInputs == SeqsUpTo(CleanAlphabet, MaxLen)

Idle == << >>

\* no concurrent requests are being served
ServerIdle ==
    /\ loop = 0 /\ rpc = Idle /\ rcalls = Idle /\ rresult = Idle
    /\ hint_seen = Idle

\* the request handler and the analyzer take no part
RequestIdle ==
    /\ ServerIdle
    /\ cv_file = Idle /\ linkedin_url = Idle /\ sources_text = Idle
    /\ http_response = Idle /\ effects = Idle /\ fetched = Idle
    /\ model_id = Idle /\ model_candidates = Idle /\ calls = Idle
    /\ cascade = Idle

InitClean ==
    /\ text_in \in CleanInputs
    /\ cleaned = << "?" >> /\ recleaned = << "?" >>
    /\ pc = "clean"
    /\ RequestIdle
    /\ items = Idle /\ deduped = Idle /\ response_text = Idle /\ parsed = Idle

\* _clean_text applied to the extracted text
Clean ==
    /\ pc = "clean"
    /\ cleaned' = CleanText(text_in)
    /\ pc' = "cleaned"
    /\ UNCHANGED serverVars
    /\ UNCHANGED << requestVars, analyzerVars, text_in, recleaned,
                    dedupeVars, parseVars >>

\* _clean_text applied to its own result
CleanAgain ==
    /\ pc = "cleaned"
    /\ recleaned' = CleanText(cleaned)
    /\ pc' = "recleaned"
    /\ UNCHANGED serverVars
    /\ UNCHANGED << requestVars, analyzerVars, text_in, cleaned,
                    dedupeVars, parseVars >>

NextClean == Clean \/ CleanAgain

SpecClean == InitClean /\ [][NextClean]_vars

\* C8: the cleaning transform is idempotent: cleaning the cleaned text gives
\* the cleaned text again, for every input.
C8_CleanIdempotent == pc = "recleaned" => recleaned = cleaned

-----------------------------------------------------------------------------
(* LinkedInFetcher._dedupe_preserve_order                                  *)

\* the number of leading characters two duplicates share
KeyLen == 200

\* key = item[:199], a key one character short
DedupeKeyShort(item) == Take(item, KeyLen - 1)

\* key = item[:200]
DedupeKey(item) == Take(item, KeyLen)

\* the for loop, from position i on, with the keys seen and the result so far
RECURSIVE DedupeLoop(_, _, _, _)
DedupeLoop(its, i, seen, result) ==
    IF i > Len(its) THEN result
    ELSE LET key == DedupeKey(its[i])
         IN  IF key \notin seen
             THEN DedupeLoop(its, i + 1, seen \cup {key}, Append(result, its[i]))
             ELSE DedupeLoop(its, i + 1, seen, result)

DedupePreserveOrder(its) == DedupeLoop(its, 1, {}, << >>)

\* n times the character c
Pad(n, c) == [k \in 1..n |-> c]

\* The fragments the lists are drawn from: four of 201 characters that differ
\* in their 200th character (x) or only in their 201st (y), two of exactly
\* 200 characters, and two short ones (a page title, an empty fragment).
Fragments ==
    { Pad(KeyLen - 1, "e") \o << x, y >> : x \in {"a", "b"}, y \in {"a", "b"} }
    \cup { Pad(KeyLen - 1, "e") \o << x >> : x \in {"a", "b"} }
    \cup { << "T", "i", "t", "l", "e" >>, << >> }

InitDedupe ==
    /\ items \in SeqsUpTo(Fragments, MaxItems)
    /\ deduped = << >>
    /\ pc = "dedupe"
    /\ RequestIdle
    /\ text_in = Idle /\ cleaned = Idle /\ recleaned = Idle
    /\ response_text = Idle /\ parsed = Idle

\* _dedupe_preserve_order applied to the extracted sections
Dedupe ==
    /\ pc = "dedupe"
    /\ deduped' = DedupePreserveOrder(items)
    /\ pc' = "deduped"
    /\ UNCHANGED serverVars
    /\ UNCHANGED << requestVars, analyzerVars, cleanVars, items, parseVars >>

NextDedupe == Dedupe

SpecDedupe == InitDedupe /\ [][NextDedupe]_vars

\* the first 200 characters of a fragment, as the claim states them
First200(item) == IF Len(item) <= 200 THEN item ELSE SubSeq(item, 1, 200)

\* C9: the result is a subsequence of the input in input order (f gives the
\* position each retained fragment was taken from), no two retained fragments
\* have the same first 200 characters, and every fragment left out has the
\* same first 200 characters as an earlier fragment of the input.
C9_DedupeByFirst200 ==
    pc = "deduped" =>
        \E f \in [1..Len(deduped) -> 1..Len(items)] :
            /\ \A k \in 1..Len(deduped) : deduped[k] = items[f[k]]
            /\ \A k, l \in 1..Len(deduped) : k < l => f[k] < f[l]
            /\ \A k, l \in 1..Len(deduped) :
                   k # l => First200(deduped[k]) # First200(deduped[l])
            /\ \A i \in 1..Len(items) :
                   (\A k \in 1..Len(deduped) : f[k] # i) =>
                       \E j \in 1..(i - 1) :
                           First200(items[j]) = First200(items[i])

\* C9 witness: a list in which one fragment was dropped as a duplicate of an
\* earlier one that differs from it after the 200th character, and in which
\* two fragments that differ in their 200th character were both retained.
C9_Witness ==
    /\ pc = "deduped"
    /\ Len(deduped) = 2 /\ Len(items) = 3
    /\ \E i, j \in 1..3 : i < j /\ items[i] # items[j]
                          /\ First200(items[i]) = First200(items[j])
    /\ Len(deduped[1]) >= 200 /\ Len(deduped[2]) >= 200
    /\ deduped[1][200] # deduped[2][200]

-----------------------------------------------------------------------------
(* CVAnalyzer._parse_analysis_response                                     *)

\* The Python value None where a str is expected: a value no text equals
\* (every character of a text is a one-character string).
PyNone == << "<None>" >>

\* The values match_percentage takes in a JSON reply, by JSON type: t is the
\* type json.loads gives the value, v its numeric value (True is 1, False is
\* 0; a float v stands for v.0 and vh for v.5; a str v for the text "v").
JsonValues ==
    [t : {"int"}, v : {-1, 0, 1, 50, 100, 101}]
    \cup [t : {"bool"}, v : {0, 1}]
    \cup [t : {"float"}, v : {50}, h : {0, 5}]
    \cup [t : {"str"}, v : {50}]
    \cup [t : {"null"}, v : {0}]

FullStrength == {"title", "description"}
FullWeakness == {"title", "description", "suggestion"}
RequiredFields == {"match_percentage", "strengths", "weaknesses", "summary"}

\* The JSON objects a reply may hold: the top-level keys present, the
\* match_percentage value, and for each strength and weakness entry the keys
\* it carries.  Every match_percentage value occurs in an otherwise
\* well-formed object; the ill-formed objects carry match_percentage 50.
JsonObjects ==
    { [keys |-> RequiredFields, match_percentage |-> mp,
       strengths |-> << FullStrength >>, weaknesses |-> << FullWeakness >>]
      : mp \in JsonValues }
    \cup
    { [keys |-> ks, match_percentage |-> [t |-> "int", v |-> 50],
       strengths |-> ss, weaknesses |-> ws]
      : ks \in {RequiredFields} \cup { RequiredFields \ {k} : k \in RequiredFields },
        ss \in { << >>, << FullStrength, FullStrength >>,
                 << FullStrength, {"title"} >> },
        ws \in { << >>, << FullWeakness >>,
                 << FullWeakness, {"title", "description"} >> } }

\* json.dumps: the JSON text of an object, kept as one token of the reply
\* (its characters are not looked at one by one)
JsonDumps(d) == ToString(d)

\* the backquote character (a TLA+ string cannot hold one: "~" stands for it)
Backquote == "~"

\* the code-fence markers: three backquotes, bare and with the json tag
Fence == << Backquote, Backquote, Backquote >>
FenceJson == Fence \o << "j", "s", "o", "n" >>

\* the reply without its markdown fence, lines 144-149
StripFences(response) ==
    LET r1 == Strip(response)
        r2 == IF StartsWith(r1, FenceJson) THEN Drop(r1, 7) ELSE r1
        r3 == IF EndsWith(r2, Fence) THEN Take(r2, Len(r2) - 3) ELSE r2
    IN  Strip(r3)

\* json.loads succeeds on a text that is exactly one JSON document
JsonDecodes(text) == \E d \in JsonObjects : text = << JsonDumps(d) >>

JsonLoads(text) == CHOOSE d \in JsonObjects : text = << JsonDumps(d) >>

\* isinstance(x, int): True for a JSON integer and, bool being a subclass of
\* int in Python, for a JSON true or false
IsInstanceInt(x) == x.t \in {"int", "bool"}

ParseFailure(kind, message) ==
    [ok |-> FALSE, error |-> kind, message |-> message, result |-> << >>]

\* the typed result; pydantic's int field takes True as 1 and False as 0
AnalysisResult(mp, strengths, weaknesses) ==
    [ok |-> TRUE, error |-> "", message |-> "",
     result |-> << [match_percentage |-> mp.v,
                    n_strengths |-> Len(strengths),
                    n_weaknesses |-> Len(weaknesses)] >>]

\* lines 154-199, on the decoded object
ValidateAnalysis(data) ==
    IF RequiredFields \ data.keys # {}
    THEN ParseFailure("parse", "Missing required field")
    ELSE IF \/ ~IsInstanceInt(data.match_percentage)
            \/ data.match_percentage.v < 0
            \/ data.match_percentage.v > 100
    THEN ParseFailure("parse", "Match percentage must be an integer between 0 and 100")
    ELSE IF \E i \in 1..Len(data.strengths) :
                FullStrength \ data.strengths[i] # {}
    THEN ParseFailure("parse", "Strength missing title or description")
    ELSE IF \E i \in 1..Len(data.weaknesses) :
                FullWeakness \ data.weaknesses[i] # {}
    THEN ParseFailure("parse", "Weakness missing field")
    ELSE AnalysisResult(data.match_percentage, data.strengths, data.weaknesses)

ParseAnalysisResponse(response) ==
    IF response = PyNone
    THEN ParseFailure("parse", "AttributeError")   \* None has no strip()
    ELSE LET text == StripFences(response)
         IN  IF ~JsonDecodes(text)
             THEN ParseFailure("json", "Invalid JSON response from GitHub Models")
             ELSE ValidateAnalysis(JsonLoads(text))

\* what a reply may put before and after its JSON document
Prefixes ==
    { << >>, << " " >>, Fence, Fence \o << "\n" >>, FenceJson,
      FenceJson \o << "\n" >>, << "\n" >> \o FenceJson \o << " " >> }

Suffixes ==
    { << >>, << "\n" >>, Fence, << "\n" >> \o Fence,
      << "\n" >> \o Fence \o << "\n" >> }

\* Replies: a JSON document between a prefix and a suffix, and replies that
\* hold no JSON document at all.
Replies ==
    { pre \o << JsonDumps(d) >> \o post :
        pre \in Prefixes, d \in JsonObjects, post \in Suffixes }
    \cup { << >>, Fence, FenceJson \o Fence, << "n", "o" >> }

InitParse ==
    /\ response_text \in Replies
    /\ parsed = << >>
    /\ pc = "parse"
    /\ RequestIdle
    /\ text_in = Idle /\ cleaned = Idle /\ recleaned = Idle
    /\ items = Idle /\ deduped = Idle

\* _parse_analysis_response applied to the reply
Parse ==
    /\ pc = "parse"
    /\ parsed' = ParseAnalysisResponse(response_text)
    /\ pc' = "parsed"
    /\ UNCHANGED serverVars
    /\ UNCHANGED << requestVars, analyzerVars, cleanVars, dedupeVars,
                    response_text >>

NextParse == Parse

SpecParse == InitParse /\ [][NextParse]_vars

\* C6: for a reply that parses as a JSON object with all four top-level keys,
\* the parse fails with a format error whenever match_percentage is not a
\* JSON integer in [0,100] (booleans, floats, strings and null included), and
\* returns a result only when it is one.
C6_MatchPercentageValidated ==
    pc = "parsed" =>
        \A d \in JsonObjects :
            (StripFences(response_text) = << JsonDumps(d) >>
             /\ RequiredFields \subseteq d.keys)
            => LET mp == d.match_percentage
                   valid == mp.t = "int" /\ mp.v >= 0 /\ mp.v <= 100
               IN  /\ ~valid => (~parsed.ok /\ parsed.error = "parse")
                   /\ parsed.ok => valid

\* C10: a reply that is valid JSON wrapped in a leading and a trailing
\* code-fence marker, the leading one with or without the json tag, parses to
\* the same outcome as the unwrapped JSON.
C10_FencesStripped ==
    pc = "parsed" =>
        \A d \in JsonObjects :
            \A lead \in {Fence, Fence \o << "\n" >>,
                          FenceJson, FenceJson \o << "\n" >>} :
                \A trail \in {Fence, << "\n" >> \o Fence} :
                    response_text = lead \o << JsonDumps(d) >> \o trail
                    => parsed = ParseAnalysisResponse(<< JsonDumps(d) >>)


-----------------------------------------------------------------------------
(* CVAnalyzer._call_github_models                                          *)

UpperCase == << "A", "B", "C", "D", "E", "F", "G", "H", "I", "J", "K", "L",
                "M", "N", "O", "P", "Q", "R", "S", "T", "U", "V", "W", "X",
                "Y", "Z" >>
LowerCase == << "a", "b", "c", "d", "e", "f", "g", "h", "i", "j", "k", "l",
                "m", "n", "o", "p", "q", "r", "s", "t", "u", "v", "w", "x",
                "y", "z" >>

\* str.lower()
Lower(s) ==
    [k \in 1..Len(s) |->
        IF \E u \in 1..26 : UpperCase[u] = s[k]
        THEN LowerCase[CHOOSE u \in 1..26 : UpperCase[u] = s[k]]
        ELSE s[k]]

\* the substrings of an error text that make a failure a soft one, line 128
UnavailableModel ==
    << "u", "n", "a", "v", "a", "i", "l", "a", "b", "l", "e", " ", "m",
       "o", "d", "e", "l" >>
UnavailableUnderscoreModel ==
    << "u", "n", "a", "v", "a", "i", "l", "a", "b", "l", "e", "_", "m",
       "o", "d", "e", "l" >>
UnknownModel ==
    << "u", "n", "k", "n", "o", "w", "n", " ", "m", "o", "d", "e", "l" >>

\* a check that lets every failure pass as a soft one
IsAnyFailure(e) == TRUE

\* lines 127-128: the lower-cased error text holds one of the markers
IsSoftFailure(e) ==
    LET error_text == Lower(e)
    IN  \/ Contains(error_text, UnavailableModel)
        \/ Contains(error_text, UnavailableUnderscoreModel)
        \/ Contains(error_text, UnknownModel)

\* the error texts a completion call fails with: three soft ones (in the
\* endpoint's own capitalisation) and two hard ones
ErrUnknownModel ==
    << "U", "n", "k", "n", "o", "w", "n", " ", "m", "o", "d", "e", "l",
       ":", " ", "x" >>
ErrUnavailableCode ==
    << "(", "u", "n", "a", "v", "a", "i", "l", "a", "b", "l", "e", "_",
       "m", "o", "d", "e", "l", ")", " ", "n", "o", " ", "a", "c", "c",
       "e", "s", "s" >>
ErrUnavailable ==
    << "U", "n", "a", "v", "a", "i", "l", "a", "b", "l", "e", " ", "m",
       "o", "d", "e", "l" >>
ErrUnknownError ==
    << "U", "n", "k", "n", "o", "w", "n", " ", "e", "r", "r", "o", "r" >>
ErrRateLimit ==
    << "r", "a", "t", "e", " ", "l", "i", "m", "i", "t" >>

ErrorTexts ==
    { ErrUnknownModel, ErrUnavailableCode, ErrUnavailable, ErrUnknownError,
      ErrRateLimit }

\* line 120
NoResponseText ==
    << "N", "o", " ", "r", "e", "s", "p", "o", "n", "s", "e", " ", "r",
       "e", "t", "u", "r", "n", "e", "d", " ", "f", "r", "o", "m", " ",
       "G", "i", "t", "H", "u", "b", " ", "M", "o", "d", "e", "l", "s" >>

\* The texts a reply's message may carry in the request pipeline: no content
\* at all, an empty one, a well-formed analysis (bare and fenced), one with a
\* match_percentage out of range, and one that is no JSON.
SomeObject(mp) ==
    [keys |-> RequiredFields, match_percentage |-> [t |-> "int", v |-> mp],
     strengths |-> << FullStrength >>, weaknesses |-> << FullWeakness >>]

Contents ==
    { PyNone, << >>,
      << JsonDumps(SomeObject(50)) >>,
      FenceJson \o << "\n", JsonDumps(SomeObject(50)), "\n" >> \o Fence,
      << JsonDumps(SomeObject(101)) >>,
      << "n", "o" >> }

\* What one client.complete call does: it raises an error with a text, or it
\* returns a response: None, one without choices, one whose first choice has
\* no message, or one whose first choice has a message with a content.
CompletionOutcomes ==
    [raised : {TRUE}, error : ErrorTexts, response : {"-"}, content : {PyNone}]
    \cup [raised : {FALSE}, error : {<< >>},
          response : {"none", "no_choices", "no_message"}, content : {PyNone}]
    \cup [raised : {FALSE}, error : {<< >>}, response : {"message"},
          content : Contents]

\* line 119: not response or not response.choices or not choices[0].message
ResponseMissing(o) == o.response \in {"none", "no_choices", "no_message"}

\* How the cascade ends: it returns a value and sets the hint, or it raises
\* an exception with a message (a sequence of texts and identifiers).
CascadeEnd(returned, value, hint, message, made) ==
    [returned |-> returned, value |-> value, hint |-> hint,
     message |-> message, calls |-> made]

\* a success that forgets to record the hint
ReturnWithoutHint(candidate_model, o, made) ==
    CascadeEnd(TRUE, o.content, << >>, << >>, made)

\* lines 122-124: self.model_id = candidate_model; return the content
ReturnContent(candidate_model, o, made) ==
    CascadeEnd(TRUE, o.content, << candidate_model >>, << >>, made)

\* line 132: raise Exception(f"Error calling GitHub Models API: {str(e)}")
RaiseWrapped(e, made) ==
    CascadeEnd(FALSE, << >>, << >>,
               << "Error calling GitHub Models API: ", e >>, made)

\* str(last_error)
Str(e) == IF e = PyNone THEN << "N", "o", "n", "e" >> ELSE e

\* an aggregate error that leaves out the cause
RaiseNoneAvailableBare(candidates, last_error, made) ==
    CascadeEnd(FALSE, << >>, << >>,
               << "Error calling GitHub Models API: none of the candidate models are available. ",
                  "Tried: ", candidates >>, made)

\* lines 134-137: the aggregate error, with ', '.join(self.model_candidates)
\* kept as the list it joins
RaiseNoneAvailable(candidates, last_error, made) ==
    CascadeEnd(FALSE, << >>, << >>,
               << "Error calling GitHub Models API: none of the candidate models are available. ",
                  "Tried: ", candidates, ". Last error: ", Str(last_error) >>,
               made)

\* Lines 101-137: every way the for loop can end from candidate i on, with
\* the last soft error and the calls made so far; each call's outcome is any
\* of CompletionOutcomes.
RECURSIVE CallFrom(_, _, _, _)
CallFrom(candidates, i, last_error, made) ==
    IF i > Len(candidates)
    THEN { RaiseNoneAvailable(candidates, last_error, made) }
    ELSE UNION {
           LET candidate_model == candidates[i]
               made2 == Append(made, [model |-> candidate_model, outcome |-> o])
               e == IF o.raised THEN o.error ELSE NoResponseText
           IN  IF ~o.raised /\ ~ResponseMissing(o)
               THEN { ReturnContent(candidate_model, o, made2) }
               ELSE IF IsSoftFailure(e)
                    THEN CallFrom(candidates, i + 1, e, made2)
                    ELSE { RaiseWrapped(e, made2) }
           : o \in CompletionOutcomes }

CallGithubModelsEnds(candidates) == CallFrom(candidates, 1, PyNone, << >>)


-----------------------------------------------------------------------------
(* LinkedInFetcher.fetch_profile_text                                      *)

LinkedinDomain ==
    << "l", "i", "n", "k", "e", "d", "i", "n", ".", "c", "o", "m" >>

\* the markers of a blocked page, line 40
BlockMarkers ==
    { << "s", "i", "g", "n", "i", "n" >>,
      << "l", "o", "g", "i", "n" >>,
      << "c", "a", "p", "t", "c", "h", "a" >>,
      << "e", "n", "a", "b", "l", "e", " ", "j", "a", "v", "a", "s", "c",
         "r", "i", "p", "t" >> }

\* line 40: any(block in html.lower() for block in [...])
IsBlocked(html) == \E block \in BlockMarkers : Contains(Lower(html), block)

\* page bodies: four that carry a marker (in the page's own capitalisation)
\* and one that carries none
PageLogin ==
    << "<", "a", ">", "L", "o", "g", "i", "n", "<", "/", "a", ">" >>
PageSignin ==
    << "/", "s", "i", "g", "n", "i", "n", "?", "x" >>
PageCaptcha ==
    << "C", "A", "P", "T", "C", "H", "A" >>
PageJavascript ==
    << "E", "n", "a", "b", "l", "e", " ", "J", "a", "v", "a", "S", "c",
       "r", "i", "p", "t" >>
PageProfile ==
    << "<", "p", ">", "p", "r", "o", "f", "i", "l", "e", "<", "/", "p",
       ">" >>

\* separator.join(parts)
RECURSIVE Join(_, _)
Join(separator, parts) ==
    IF parts = << >> THEN << >>
    ELSE IF Len(parts) = 1 THEN parts[1]
    ELSE parts[1] \o separator \o Join(separator, Tail(parts))

\* the cap on the extracted profile text, line 102
MaxCombined == 30000

\* What requests.get and the parse of the page do: the GET times out or
\* fails to connect; or it answers with a status and a body, and
\* BeautifulSoup and the section heuristics (lines 44-98) either raise or
\* leave the list extracted_sections.
HttpOutcomes ==
    [kind : {"timeout", "connection_error"}, status : {0}, html : {<< >>},
     soup : {"-"}, extracted_sections : {<< >>}]
    \cup [kind : {"response"}, status : {404, 999}, html : {PageProfile},
          soup : {"-"}, extracted_sections : {<< >>}]
    \cup [kind : {"response"}, status : {200},
          html : {PageLogin, PageSignin, PageCaptcha, PageJavascript},
          soup : {"-"}, extracted_sections : {<< >>}]
    \cup [kind : {"response"}, status : {200}, html : {PageProfile},
          soup : {"raises"}, extracted_sections : {<< >>}]
    \cup [kind : {"response"}, status : {200}, html : {PageProfile},
          soup : {"ok"},
          extracted_sections :
              { << >>,
                << << "T", "i", "t", "l", "e" >> >>,
                << << "T", "i", "t", "l", "e" >>,
                   Pad(KeyLen - 1, "e") \o << "a", "a" >>,
                   Pad(KeyLen - 1, "e") \o << "a", "b" >> >> }]

NoHttp ==
    [kind |-> "none", status |-> 0, html |-> << >>, soup |-> "-",
     extracted_sections |-> << >>]

\* how _fetch_profile_text_sync ends: what it returns or that it raised, the
\* number of GETs it issued and what the network did
FetchEnd(raised, ret, gets, http) ==
    [called |-> TRUE, raised |-> raised, ret |-> ret, gets |-> gets,
     http |-> http]

\* a fetch without the handler of lines 103-104: the exception leaves it
FetchRaises(gets, http) == FetchEnd(TRUE, << >>, gets, http)

\* lines 103-104: except Exception: return ""
FetchExcept(gets, http) == FetchEnd(FALSE, << >>, gets, http)

\* line 31: not url or "linkedin.com" not in url
UrlRejected(url) == url = << >> \/ ~Contains(url, LinkedinDomain)

\* lines 29-104, for every outcome of the GET and of the parse
FetchProfileTextSyncEnds(url) ==
    IF url = PyNone THEN { FetchEnd(FALSE, << >>, 0, NoHttp) }   \* not url
    ELSE IF UrlRejected(url) THEN { FetchEnd(FALSE, << >>, 0, NoHttp) }
    ELSE { IF http.kind # "response" THEN FetchExcept(1, http)
           ELSE IF http.status # 200 THEN FetchEnd(FALSE, << >>, 1, http)
           ELSE IF IsBlocked(http.html) THEN FetchEnd(FALSE, << >>, 1, http)
           ELSE IF http.soup = "raises" THEN FetchExcept(1, http)
           ELSE FetchEnd(FALSE,
                         Take(Join(<< "\n", "\n" >>,
                                   DedupePreserveOrder(http.extracted_sections)),
                              MaxCombined),
                         1, http)
           : http \in HttpOutcomes }


-----------------------------------------------------------------------------
(* FileProcessor.extract_text                                              *)

\* s.split('.')[-1]: what follows the last dot (all of s when it has none)
RECURSIVE LastExtension(_)
LastExtension(s) ==
    IF \E k \in 1..Len(s) : s[k] = "."
    THEN LastExtension(Tail(s))
    ELSE s

ExtPdf == << "p", "d", "f" >>
ExtDoc == << "d", "o", "c" >>
ExtDocx == << "d", "o", "c", "x" >>

\* the raw texts a document decodes to
DocTexts ==
    { << >>, << " ", "\n" >>, << "$" >>, << "a", "\n", "\n", "b" >>,
      << "a", " ", "$", " ", "b" >> }

\* lines 11-62: every way extract_text can end for a file name: it raises
\* (an unsupported extension, or a payload the decoder rejects) or it returns
\* the cleaned text of the document
ExtractTextEnds(filename) ==
    IF LastExtension(Lower(filename)) \notin {ExtPdf, ExtDoc, ExtDocx}
    THEN { [raised |-> TRUE, text |-> << >>] }
    ELSE { [raised |-> TRUE, text |-> << >>] }
         \cup { [raised |-> FALSE, text |-> CleanText(raw)] : raw \in DocTexts }

-----------------------------------------------------------------------------
(* CVAnalyzer.__init__ and the /analyze handler of app/main.py             *)

\* longest GITHUB_MODEL_CANDIDATES list
MaxCandidates == 3

\* the values of GITHUB_MODEL_ID: unset (the default identifier) or set
EnvModelIds == { "openai/gpt-5", "A" }

\* the entries of GITHUB_MODEL_CANDIDATES between its commas, once stripped:
\* two identifiers and a blank entry
EnvCandidateEntries == { "A", "B", "" }

\* lines 15-22
ModelCandidates(env_model_id, env_entries) ==
    LET given == SelectSeq(env_entries, LAMBDA m : m # "")
    IN  IF given # << >> THEN given
        ELSE << env_model_id, "openai/gpt-4o-mini", "openai/gpt-4o" >>

\* the file names of the uploaded file: no file part (None), a part with an
\* empty file name, and named files
FilePdf ==
    << "a", ".", "p", "d", "f" >>
FilePdfUpper ==
    << "A", ".", "P", "D", "F" >>
FileDocx ==
    << "b", ".", "a", ".", "d", "o", "c", "x" >>
FileTxt ==
    << "a", ".", "t", "x", "t" >>

Filenames == { PyNone, << >>, FilePdfUpper, FileDocx, FileTxt }

UrlBlank ==
    << " ", "\n" >>
UrlOther ==
    << "e", "x", "a", "m", "p", "l", "e", ".", "c", "o", "m", "/", "n",
       "o", "t", "-", "l", "i", "n", "k", "e", "d", "i", "n" >>
UrlProfilePadded ==
    << " ", "l", "i", "n", "k", "e", "d", "i", "n", ".", "c", "o", "m",
       "/", "i", "n", "/", "x", " " >>

Urls == { PyNone, << >>, UrlBlank, UrlOther, UrlProfilePadded }

NoAnswer == [status |-> 0, detail |-> << >>, body |-> << >>]
NotFetched ==
    [url |-> PyNone, called |-> FALSE, raised |-> FALSE, ret |-> << >>, gets |-> 0,
     http |-> NoHttp]
NotCalled == CascadeEnd(FALSE, << >>, << >>, << >>, << >>)

\* CVAnalyzer(), lines 12-25, with GITHUB_MODEL_ID one of EnvModelIds and
\* GITHUB_MODEL_CANDIDATES one of the given lists of entries
NewAnalyzer(env_entry_lists) ==
    /\ \E env_model_id \in EnvModelIds, env_entries \in env_entry_lists :
            /\ model_id = env_model_id
            /\ model_candidates = ModelCandidates(env_model_id, env_entries)
    /\ calls = << >>
    /\ cascade = NotCalled
    /\ response_text = Idle /\ parsed = Idle

\* A request arrives at a service started without GITHUB_MODEL_CANDIDATES.
Init ==
    /\ pc = "start"
    /\ ServerIdle
    /\ cv_file \in Filenames
    /\ linkedin_url \in Urls
    /\ sources_text = << >>
    /\ http_response = NoAnswer
    /\ effects = << >>
    /\ fetched = NotFetched
    /\ NewAnalyzer({ << >> })
    /\ text_in = Idle /\ cleaned = Idle /\ recleaned = Idle
    /\ items = Idle /\ deduped = Idle

\* The analyzer, configured with any candidate list, is handed the corpus of
\* a request whose document yielded text.
InitAnalyzer ==
    /\ pc = "analyze"
    /\ ServerIdle
    /\ cv_file = FilePdf
    /\ linkedin_url = PyNone
    /\ sources_text = << [label |-> "CV Document", text |-> << "a" >>] >>
    /\ http_response = NoAnswer
    /\ effects = << "extract" >>
    /\ fetched = NotFetched
    /\ NewAnalyzer(SeqsUpTo(EnvCandidateEntries, MaxCandidates))
    /\ text_in = Idle /\ cleaned = Idle /\ recleaned = Idle
    /\ items = Idle /\ deduped = Idle

\* cv_file and getattr(cv_file, "filename", "")
HasFile == cv_file # PyNone /\ cv_file # << >>

\* linkedin_url and linkedin_url.strip()
HasUrl == linkedin_url # PyNone /\ Strip(linkedin_url) # << >>

\* line 45
NoSource == ~HasFile /\ ~HasUrl

\* line 55: filename.lower().endswith((".pdf", ".doc", ".docx"))
SupportedFile(filename) ==
    \/ EndsWith(Lower(filename), << "." >> \o ExtPdf)
    \/ EndsWith(Lower(filename), << "." >> \o ExtDoc)
    \/ EndsWith(Lower(filename), << "." >> \o ExtDocx)

HttpError(status, detail) ==
    [status |-> status, detail |-> detail, body |-> << >>]

\* lines 61-62 and 67-68: a source is kept when its text is not blank
WithSource(sources, label, text) ==
    IF text # << >> /\ Strip(text) # << >>
    THEN Append(sources, [label |-> label, text |-> text])
    ELSE sources

\* line 76, each source as f"{label}:\n{text}"
CombinedText(sources) ==
    Join(<< "\n", "\n", "-", "-", "-", "\n", "\n" >>,
         [k \in 1..Len(sources) |->
             << sources[k].label, ":", "\n" >> \o sources[k].text])

\* an aggregation that goes on without any source
ProceedAnyway(sources) ==
    /\ pc' = "analyze"
    /\ UNCHANGED http_response

\* lines 70-79: without any source text the request ends with 400,
\* otherwise the corpus goes to cv_analyzer.analyze
Aggregate(sources) ==
    IF sources = << >>
    THEN /\ http_response' =
                HttpError(400, << "Could not extract text from the provided inputs." >>)
         /\ pc' = "done"
    ELSE /\ pc' = "analyze"
         /\ UNCHANGED http_response

\* lines 44-59: the checks of the request before any source is read
AnalyzeCv ==
    /\ pc = "start"
    /\ IF NoSource
       THEN /\ http_response' =
                   HttpError(400, << "Please upload a CV or provide a LinkedIn URL." >>)
            /\ pc' = "done"
       ELSE IF HasFile /\ ~SupportedFile(cv_file)
       THEN /\ http_response' =
                   HttpError(400, << "Only PDF, DOC, and DOCX files are supported" >>)
            /\ pc' = "done"
       ELSE /\ pc' = IF HasFile THEN "extract" ELSE "fetch"
            /\ UNCHANGED http_response
    /\ UNCHANGED serverVars
    /\ UNCHANGED << cv_file, linkedin_url, sources_text, effects, fetched,
                    analyzerVars, cleanVars, dedupeVars, parseVars >>

\* lines 60-62: await file_processor.extract_text(cv_file)
ExtractText ==
    /\ pc = "extract"
    /\ effects' = Append(effects, "extract")
    /\ \E end \in ExtractTextEnds(cv_file) :
          IF end.raised
          THEN /\ http_response' = HttpError(500, << "Error processing file: " >>)
               /\ pc' = "done"
               /\ UNCHANGED sources_text
          ELSE /\ sources_text' = WithSource(sources_text, "CV Document", end.text)
               /\ IF HasUrl
                  THEN pc' = "fetch" /\ UNCHANGED http_response
                  ELSE Aggregate(sources_text')
    /\ UNCHANGED serverVars
    /\ UNCHANGED << cv_file, linkedin_url, fetched, analyzerVars, cleanVars,
                    dedupeVars, parseVars >>

\* lines 65-68: await linkedin_fetcher.fetch_profile_text(url.strip())
FetchProfileText ==
    /\ pc = "fetch"
    /\ \E end \in FetchProfileTextSyncEnds(Strip(linkedin_url)) :
          /\ fetched' = [url |-> Strip(linkedin_url)] @@ end
          /\ effects' = IF end.gets = 1 THEN Append(effects, "GET") ELSE effects
          /\ IF end.raised
             THEN /\ http_response' = HttpError(500, << "fetch_profile_text" >>)
                  /\ pc' = "done"
                  /\ UNCHANGED sources_text
             ELSE /\ sources_text' =
                         WithSource(sources_text, "LinkedIn Profile", end.ret)
                  /\ Aggregate(sources_text')
    /\ UNCHANGED serverVars
    /\ UNCHANGED << cv_file, linkedin_url, analyzerVars, cleanVars,
                    dedupeVars, parseVars >>

\* CVAnalyzer.analyze, lines 33-36 and 43-44: the prompt goes through the
\* candidate cascade
CallGithubModels ==
    /\ pc = "analyze"
    /\ \E end \in CallGithubModelsEnds(model_candidates) :
          /\ cascade' = end
          /\ calls' = end.calls
          /\ model_id' = IF end.hint # << >> THEN end.hint[1] ELSE model_id
          /\ IF end.returned
             THEN /\ response_text' = end.value
                  /\ pc' = "parse"
                  /\ UNCHANGED http_response
             ELSE /\ http_response' =
                         HttpError(500, << "Error during CV analysis: ", end.message >>)
                  /\ pc' = "done"
                  /\ UNCHANGED response_text
    /\ UNCHANGED serverVars
    /\ UNCHANGED << cv_file, linkedin_url, sources_text, effects, fetched,
                    model_candidates, parsed, cleanVars, dedupeVars >>

\* CVAnalyzer.analyze, lines 39-44, and main.py lines 81-86
ParseReply ==
    /\ pc = "parse"
    /\ parsed' = ParseAnalysisResponse(response_text)
    /\ http_response' =
          IF parsed'.ok
          THEN [status |-> 200, detail |-> << >>, body |-> parsed'.result]
          ELSE HttpError(500, << "Error during CV analysis: ", parsed'.message >>)
    /\ pc' = "done"
    /\ UNCHANGED serverVars
    /\ UNCHANGED << cv_file, linkedin_url, sources_text, effects, fetched,
                    analyzerVars, response_text, cleanVars, dedupeVars >>

Next == AnalyzeCv \/ ExtractText \/ FetchProfileText \/ CallGithubModels
        \/ ParseReply

Spec == Init /\ [][Next]_vars

NextAnalyzer == CallGithubModels \/ ParseReply

SpecAnalyzer == InitAnalyzer /\ [][NextAnalyzer]_vars


-----------------------------------------------------------------------------
(* Properties of the candidate cascade (under SpecAnalyzer).               *)

\* _call_github_models has run
Called == cascade # NotCalled

\* a call that soft-fails: it raised, and its error text holds, in any
\* capitalisation, one of the three substrings
SoftFails(o) ==
    /\ o.raised
    /\ \E marker \in {UnavailableModel, UnavailableUnderscoreModel, UnknownModel} :
           Contains(Lower(o.error), marker)

\* a call that hard-fails: it raised with any other error text
HardFails(o) == o.raised /\ ~SoftFails(o)

\* a call that succeeds: a response whose first choice carries a message
Succeeds(o) == ~o.raised /\ o.response = "message"

\* C1: the calls made are the candidates in list order, one call each, every
\* call but the last soft-failed (the cascade stops at the first candidate
\* that does not), a soft failure of a candidate that is not the last one is
\* followed by the call of the next, and when candidate k succeeds the value
\* returned is its message content and the hint (model_id) is candidate k.
C1_CascadeInOrderUntilSuccess ==
    Called =>
        LET n == Len(calls)
        IN  /\ n >= 1 /\ n <= Len(model_candidates)
            /\ \A j \in 1..n : calls[j].model = model_candidates[j]
            /\ \A j \in 1..(n - 1) : SoftFails(calls[j].outcome)
            /\ SoftFails(calls[n].outcome) => n = Len(model_candidates)
            /\ \A k \in 1..n :
                   Succeeds(calls[k].outcome) =>
                       /\ k = n
                       /\ cascade.returned
                       /\ cascade.value = calls[k].outcome.content
                       /\ model_id = model_candidates[k]

\* C1 witness: the first two of three candidates soft-failed (with different
\* error texts), the third succeeded with a text, and the hint moved to it.
C1_Witness ==
    /\ Called /\ Len(calls) = 3 /\ Len(model_candidates) = 3
    /\ SoftFails(calls[1].outcome) /\ SoftFails(calls[2].outcome)
    /\ calls[1].outcome.error # calls[2].outcome.error
    /\ Succeeds(calls[3].outcome) /\ calls[3].outcome.content # PyNone
    /\ cascade.returned
    /\ model_id = "openai/gpt-4o" /\ model_candidates[1] = "openai/gpt-5"

\* C2: a call that hard-fails is the last call made; the cascade then raises
\* the error wrapped with a context, and the request ends with it.
C2_HardFailureAborts ==
    Called =>
        \A j \in 1..Len(calls) :
            HardFails(calls[j].outcome) =>
                /\ j = Len(calls)
                /\ ~cascade.returned
                /\ Len(cascade.message) = 2
                /\ cascade.message[2] = calls[j].outcome.error
                /\ pc = "done" /\ http_response.status = 500

\* C2 witness: of three candidates the first soft-failed and the second
\* hard-failed; the cascade raised with the third still untried.
C2_Witness ==
    /\ Called /\ Len(calls) = 2 /\ Len(model_candidates) = 3
    /\ SoftFails(calls[1].outcome) /\ HardFails(calls[2].outcome)
    /\ ~cascade.returned

\* C3: when every call made soft-failed, every candidate has been called
\* once, in order, and the cascade raised the aggregate error, whose message
\* lists the candidate identifiers and the cause of the last soft failure;
\* nothing was returned.
C3_AllSoftFailAggregates ==
    (Called /\ \A j \in 1..Len(calls) : SoftFails(calls[j].outcome)) =>
        /\ Len(calls) = Len(model_candidates)
        /\ \A j \in 1..Len(calls) : calls[j].model = model_candidates[j]
        /\ ~cascade.returned /\ cascade.hint = << >>
        /\ Len(cascade.message) = 5
        /\ cascade.message[3] = model_candidates
        /\ cascade.message[5] = calls[Len(calls)].outcome.error
        /\ pc = "done" /\ http_response.status = 500

\* C3 witness: three candidates soft-failed, the last with another error
\* text than the first, and the aggregate error was raised.
C3_Witness ==
    /\ Called /\ Len(calls) = 3
    /\ \A j \in 1..3 : SoftFails(calls[j].outcome)
    /\ calls[1].outcome.error # calls[3].outcome.error
    /\ ~cascade.returned

\* a response without a body: no response, no choices, no message, or a
\* message whose content is missing or empty
EmptyBody(o) ==
    /\ ~o.raised
    /\ \/ o.response \in {"none", "no_choices", "no_message"}
       \/ o.content = PyNone
       \/ o.content = << >>

\* C4: a response without a body is a hard failure: it is the last call, the
\* cascade raises and returns nothing, and the candidate is not recorded as
\* the hint.
C4_EmptyBodyIsHardFailure ==
    Called =>
        \A j \in 1..Len(calls) :
            EmptyBody(calls[j].outcome) =>
                /\ j = Len(calls)
                /\ ~cascade.returned
                /\ cascade.hint = << >>

-----------------------------------------------------------------------------
(* Properties of the /analyze pipeline (under Spec).                       *)

\* a text of whitespace only (the empty text included)
Blank(text) == \A k \in 1..Len(text) : IsSpace(text[k])

\* C5: the model is reached only with a corpus made of at least one source
\* whose extracted text is not blank, so the corpus is not empty; and a
\* request without a file and with a blank or missing linkedin_url ends with
\* status 400 before any extraction, profile fetch or model call.
C5_ModelOnlyWithCorpus ==
    /\ (pc \in {"analyze", "parse"} \/ calls # << >>) =>
           /\ sources_text # << >>
           /\ \A k \in 1..Len(sources_text) : ~Blank(sources_text[k].text)
           /\ CombinedText(sources_text) # << >>
    /\ ( /\ pc # "start"
         /\ cv_file \in {PyNone, << >>}
         /\ (linkedin_url = PyNone \/ Blank(linkedin_url)) ) =>
           /\ pc = "done" /\ http_response.status = 400
           /\ effects = << >> /\ ~fetched.called /\ calls = << >>

\* C5 witness: a request with a file and a profile URL of which only one
\* yielded text, and the model was called with it.
C5_Witness ==
    /\ calls # << >>
    /\ cv_file \notin {PyNone, << >>} /\ fetched.called
    /\ Len(sources_text) = 1

\* C7: the profile fetch never raises and returns a text; for a URL without
\* the domain substring it returns the empty text and no GET is issued, and
\* after a timeout or another exception, a status other than 200 or a page
\* with a sign-in, CAPTCHA or JavaScript marker it returns the empty text.
C7_FetchDegradesToEmpty ==
    fetched.called =>
        /\ ~fetched.raised
        /\ fetched.ret # PyNone
        /\ ~Contains(fetched.url, LinkedinDomain) =>
               /\ fetched.ret = << >> /\ fetched.gets = 0
               /\ \A k \in 1..Len(effects) : effects[k] # "GET"
        /\ ( \/ fetched.http.kind \in {"timeout", "connection_error"}
             \/ fetched.http.soup = "raises"
             \/ (fetched.http.kind = "response" /\ fetched.http.status # 200)
             \/ \E marker \in BlockMarkers :
                    Contains(Lower(fetched.http.html), marker) ) =>
               fetched.ret = << >>

\* C7 witness: the page was fetched but its parse raised; the fetch returned
\* the empty text and the request went on with the document's text.
C7_Witness ==
    /\ fetched.called /\ fetched.http.soup = "raises"
    /\ fetched.ret = << >> /\ ~fetched.raised
    /\ pc = "analyze"


\* ---------------------------------------------------------------------------
\* Concurrent requests served by one event loop, sharing the module's
\* linkedin_fetcher and cv_analyzer (main.py lines 27-29).

NumRequests == 2
Requests == 1 .. NumRequests

\* What client.complete does for the concurrent requests: a soft error, a
\* hard error, no response, or a reply with a well-formed analysis.
ServerOutcomes ==
    { o \in CompletionOutcomes :
        \/ o.raised /\ o.error \in { ErrUnavailable, ErrRateLimit }
        \/ o.response = "none"
        \/ o.response = "message" /\ o.content = << JsonDumps(SomeObject(50)) >> }

\* a cascade that tries the last-successful model before the list
HintFirst(hint, candidates) == << hint >> \o candidates

\* line 102: for candidate_model in self.model_candidates; self.model_id is
\* not consulted
CandidatesToTry(hint, candidates) == candidates

\* Every request carries a document whose text was extracted and a profile
\* URL; the service was started without GITHUB_MODEL_CANDIDATES.
InitServer ==
    /\ pc = "serve"
    /\ loop = 0
    /\ rpc = [r \in Requests |-> "start"]
    /\ rcalls = [r \in Requests |-> << >>]
    /\ rresult = [r \in Requests |-> NotCalled]
    /\ hint_seen = [r \in Requests |-> PyNone]
    /\ cv_file = Idle /\ linkedin_url = Idle /\ sources_text = Idle
    /\ http_response = Idle /\ effects = Idle /\ fetched = Idle
    /\ NewAnalyzer({ << >> })
    /\ text_in = Idle /\ cleaned = Idle /\ recleaned = Idle
    /\ items = Idle /\ deduped = Idle

\* main.py lines 44-66 and linkedin_fetcher.py lines 26-27: the handler runs
\* on the loop up to await asyncio.to_thread(...), which hands the fetch to a
\* worker thread and gives the loop back.
StartRequest(r) ==
    /\ pc = "serve"
    /\ loop = 0
    /\ rpc[r] = "start"
    /\ rpc' = [rpc EXCEPT ![r] = "fetching"]
    /\ UNCHANGED << loop, rcalls, rresult, hint_seen >>
    /\ UNCHANGED << pc, requestVars, analyzerVars, cleanVars, dedupeVars,
                    parseVars >>

\* linkedin_fetcher.py lines 29-104: the worker thread finishes
\* _fetch_profile_text_sync, whatever the loop is doing; the coroutine becomes
\* ready to resume.
FetchReturns(r) ==
    /\ pc = "serve"
    /\ rpc[r] = "fetching"
    /\ rpc' = [rpc EXCEPT ![r] = "fetched"]
    /\ UNCHANGED << loop, rcalls, rresult, hint_seen >>
    /\ UNCHANGED << pc, requestVars, analyzerVars, cleanVars, dedupeVars,
                    parseVars >>

\* main.py lines 67-79 and cv_analyzer.py lines 27-102: the loop resumes the
\* coroutine, which runs without an await point into _call_github_models and
\* starts the for loop.
ResumeAnalyze(r) ==
    /\ pc = "serve"
    /\ loop = 0
    /\ rpc[r] = "fetched"
    /\ loop' = r
    /\ rpc' = [rpc EXCEPT ![r] = "completing"]
    /\ hint_seen' = [hint_seen EXCEPT ![r] = model_id]
    /\ UNCHANGED << rcalls, rresult >>
    /\ UNCHANGED << pc, requestVars, analyzerVars, cleanVars, dedupeVars,
                    parseVars >>

\* cv_analyzer.py lines 102-137: one turn of the for loop. client.complete
\* (lines 114-117) is called in the coroutine itself, so the loop is held by
\* request r until the cascade ends.
CompleteReturns(r) ==
    /\ pc = "serve"
    /\ loop = r
    /\ rpc[r] = "completing"
    /\ \E o \in ServerOutcomes :
          LET candidates == CandidatesToTry(hint_seen[r], model_candidates)
              i == Len(rcalls[r]) + 1
              candidate_model == candidates[i]
              made == Append(rcalls[r],
                             [model |-> candidate_model, outcome |-> o])
              e == IF o.raised THEN o.error ELSE NoResponseText
          IN  /\ rcalls' = [rcalls EXCEPT ![r] = made]
              /\ IF ~o.raised /\ ~ResponseMissing(o)
                 THEN /\ rresult' = [rresult EXCEPT ![r] =
                                        ReturnContent(candidate_model, o, made)]
                      /\ model_id' = candidate_model
                      /\ rpc' = [rpc EXCEPT ![r] = "done"]
                      /\ loop' = 0
                 ELSE IF IsSoftFailure(e)
                      THEN IF i < Len(candidates)
                           THEN UNCHANGED << rresult, model_id, rpc, loop >>
                           ELSE /\ rresult' = [rresult EXCEPT ![r] =
                                       RaiseNoneAvailable(model_candidates, e, made)]
                                /\ rpc' = [rpc EXCEPT ![r] = "done"]
                                /\ loop' = 0
                                /\ UNCHANGED model_id
                      ELSE /\ rresult' = [rresult EXCEPT ![r] =
                                             RaiseWrapped(e, made)]
                           /\ rpc' = [rpc EXCEPT ![r] = "done"]
                           /\ loop' = 0
                           /\ UNCHANGED model_id
    /\ UNCHANGED hint_seen
    /\ UNCHANGED << pc, requestVars, model_candidates, calls, cascade,
                    cleanVars, dedupeVars, parseVars >>

NextServer ==
    \E r \in Requests :
        StartRequest(r) \/ FetchReturns(r) \/ ResumeAnalyze(r)
        \/ CompleteReturns(r)

SpecServer == InitServer /\ [][NextServer]_vars

\* a request is waiting in one of its two network steps
Waiting(r) == rpc[r] \in { "fetching", "completing" }

\* C11: while a request is waiting in the profile fetch or in the model
\* completion call, the event loop is free for the other requests.
C11_NetworkStepsOffLoop ==
    \A r \in Requests : Waiting(r) => loop = 0


\* the request's cascade has ended
Done(r) == rpc[r] = "done"

\* the outcomes of the completion calls a request made, and the models it
\* called, in order
Outcomes(r) == [k \in 1 .. Len(rcalls[r]) |-> rcalls[r][k].outcome]
ModelsCalled(r) == [k \in 1 .. Len(rcalls[r]) |-> rcalls[r][k].model]

\* C12: with concurrent requests sharing the analyzer, the last-successful
\* hint (model_id) never affects a result: whatever hint a request found, it
\* calls the candidates of the fixed list in list order; two requests whose
\* own calls had the same outcomes end alike (same returned text or same
\* error, after the same calls); and a request inside the cascade can always
\* take its next step, whatever the hint holds.
C12_HintNeverAffectsResults ==
    /\ \A r \in Requests :
          /\ Len(rcalls[r]) <= Len(model_candidates)
          /\ ModelsCalled(r) = SubSeq(model_candidates, 1, Len(rcalls[r]))
    /\ \A r1, r2 \in Requests :
          Done(r1) /\ Done(r2) /\ Outcomes(r1) = Outcomes(r2)
              => rresult[r1] = rresult[r2]
    /\ \A r \in Requests :
          rpc[r] = "completing" => ENABLED CompleteReturns(r)

\* two requests ended alike, after a fallback, although the second found a
\* hint written by the first
C12_Witness ==
    \E r1, r2 \in Requests :
        /\ Done(r1) /\ Done(r2)
        /\ rresult[r1].returned
        /\ hint_seen[r1] # hint_seen[r2]
        /\ hint_seen[r2] = rresult[r1].hint[1]
        /\ Len(rcalls[r1]) >= 2
        /\ Outcomes(r1) = Outcomes(r2)
        /\ rresult[r1] = rresult[r2]

====
